---- MODULE Spec2Model ----
(***************************************************************************)
(* Model of hooks/memory_logger.py: the memory-block logger that keeps,    *)
(* per block, one snapshot file (<name>.json) and one append-only log of   *)
(* unified diffs (<name>.jsonl), and rebuilds old versions by applying the *)
(* logged diffs in reverse from the snapshot.                              *)
(*                                                                         *)
(* A text (Python str) is a sequence of one-character strings.  A list of  *)
(* lines is a sequence of texts.  An optional value (Python None or a      *)
(* value) is a sequence of length 0 or 1.                                  *)
(***************************************************************************)
EXTENDS Integers, Sequences, FiniteSets, TLC

\* ------------------------------------------------------------------ bounds

\* Longest text (in characters) drawn as an input of the diff functions.
MaxLen == 3

\* Number of reads of the wall clock (one per file written) in a run.
MaxClock == 5

\* Longest list of blocks one fetch returns.
MaxBlocks == 2

\* Longest log drawn as an on-disk input of the reconstruction.
MaxLog == 2

\* ------------------------------------------------------------ text helpers

NL == "\n"
CR == "\r"

\* The line boundaries of str.splitlines that the modelled alphabet can hold.
LineBreaks == {NL, CR}

Digits == <<"0", "1", "2", "3", "4", "5", "6", "7", "8", "9">>

None == << >>

Some(x) == <<x>>

Last(s) == s[Len(s)]

Max(x, y) == IF x >= y THEN x ELSE y

Min(x, y) == IF x <= y THEN x ELSE y

RECURSIVE Concat(_)
\* "".join(parts)
Concat(parts) ==
  IF parts = << >> THEN << >> ELSE Head(parts) \o Concat(Tail(parts))

RECURSIVE Join(_, _)
\* sep.join(parts)
Join(parts, sep) ==
  IF parts = << >> THEN << >>
  ELSE IF Len(parts) = 1 THEN parts[1]
  ELSE parts[1] \o sep \o Join(Tail(parts), sep)

\* s.startswith(prefix)
StartsWith(s, prefix) ==
  /\ Len(s) >= Len(prefix)
  /\ SubSeq(s, 1, Len(prefix)) = prefix

\* s.endswith(suffix)
EndsWith(s, suffix) ==
  /\ Len(s) >= Len(suffix)
  /\ SubSeq(s, Len(s) - Len(suffix) + 1, Len(s)) = suffix

RECURSIVE SplitFrom(_, _, _)
\* The lines of s from position i on: a line ends at the first "\r\n", "\n" or
\* "\r" at or after i.
SplitFrom(s, i, keepends) ==
  IF i > Len(s) THEN << >>
  ELSE IF \A j \in i..Len(s) : s[j] \notin LineBreaks
  THEN <<SubSeq(s, i, Len(s))>>
  ELSE LET brk == CHOOSE j \in i..Len(s) :
                    /\ s[j] \in LineBreaks
                    /\ \A k \in i..(j - 1) : s[k] \notin LineBreaks
           end == IF s[brk] = CR /\ brk < Len(s) /\ s[brk + 1] = NL
                  THEN brk + 1 ELSE brk
       IN <<SubSeq(s, i, IF keepends THEN end ELSE brk - 1)>>
          \o SplitFrom(s, end + 1, keepends)

\* str.splitlines(keepends): a final piece with no characters is no line.
splitlines(s, keepends) == SplitFrom(s, 1, keepends)

RECURSIVE str(_)
\* str(n) for an int n >= 0: its decimal digits.
str(n) == IF n < 10 THEN <<Digits[n + 1]>> ELSE Append(str(n \div 10), Digits[(n % 10) + 1])

IsDigit(c) == \E d \in 1..10 : Digits[d] = c

DigitVal(c) == (CHOOSE d \in 1..10 : Digits[d] = c) - 1

RECURSIVE int(_)
\* int(s) for a non-empty string of decimal digits.
int(s) ==
  IF Len(s) = 1 THEN DigitVal(s[1])
  ELSE 10 * int(SubSeq(s, 1, Len(s) - 1)) + DigitVal(s[Len(s)])

\* The characters of a block name, as they enter the diff's file header.
NameText(name) ==
  CASE name = "human" -> <<"h", "u", "m", "a", "n">>
    [] name = "persona" -> <<"p", "e", "r", "s", "o", "n", "a">>
    [] OTHER -> << >>

\* ------------------------------------------------- difflib.SequenceMatcher

RECURSIVE RunLen(_, _, _, _, _, _)
\* Length of the longest common run a[i:i+k] = b[j:j+k] inside a[..ahi], b[..bhi]
\* (0-based i, j as in the code).
RunLen(a, b, i, j, ahi, bhi) ==
  IF i < ahi /\ j < bhi /\ a[i + 1] = b[j + 1]
  THEN 1 + RunLen(a, b, i + 1, j + 1, ahi, bhi)
  ELSE 0

SetMax(S) == CHOOSE x \in S : \A y \in S : y <= x

SetMin(S) == CHOOSE x \in S : \A y \in S : x <= y

\* SequenceMatcher.find_longest_match without junk: the longest matching block,
\* the one starting earliest in a, and of those the one starting earliest in b.
find_longest_match(a, b, alo, ahi, blo, bhi) ==
  IF alo >= ahi \/ blo >= bhi THEN <<alo, blo, 0>>
  ELSE
    LET I == alo..(ahi - 1)
        J == blo..(bhi - 1)
        k == SetMax({RunLen(a, b, i, j, ahi, bhi) : i \in I, j \in J})
    IN IF k = 0 THEN <<alo, blo, 0>>
       ELSE
         LET besti == SetMin({i \in I : \E j \in J : RunLen(a, b, i, j, ahi, bhi) = k})
             bestj == SetMin({j \in J : RunLen(a, b, besti, j, ahi, bhi) = k})
         IN <<besti, bestj, k>>

RECURSIVE MatchingBlocksAround(_, _, _, _, _, _, _)
\* The blocks get_matching_blocks collects in a[alo:ahi], b[blo:bhi], sorted: those
\* left of the longest match m = (i, j, k), m itself, those right of it.
MatchingBlocksAround(a, b, alo, ahi, blo, bhi, m) ==
  IF m[3] = 0 THEN << >>
  ELSE (IF alo < m[1] /\ blo < m[2]
        THEN MatchingBlocksAround(a, b, alo, m[1], blo, m[2],
                                  find_longest_match(a, b, alo, m[1], blo, m[2]))
        ELSE << >>)
       \o <<m>>
       \o (IF m[1] + m[3] < ahi /\ m[2] + m[3] < bhi
           THEN MatchingBlocksAround(a, b, m[1] + m[3], ahi, m[2] + m[3], bhi,
                                     find_longest_match(a, b, m[1] + m[3], ahi,
                                                        m[2] + m[3], bhi))
           ELSE << >>)

MatchingBlocksIn(a, b, alo, ahi, blo, bhi) ==
  MatchingBlocksAround(a, b, alo, ahi, blo, bhi,
                       find_longest_match(a, b, alo, ahi, blo, bhi))

RECURSIVE CollapseAdjacent(_, _)
\* The loop of get_matching_blocks that merges adjacent blocks; cur is (i1, j1, k1).
CollapseAdjacent(blocks, cur) ==
  IF blocks = << >> THEN (IF cur[3] > 0 THEN <<cur>> ELSE << >>)
  ELSE
    LET nxt == Head(blocks)
    IN IF cur[1] + cur[3] = nxt[1] /\ cur[2] + cur[3] = nxt[2]
       THEN CollapseAdjacent(Tail(blocks), <<cur[1], cur[2], cur[3] + nxt[3]>>)
       ELSE (IF cur[3] > 0 THEN <<cur>> ELSE << >>) \o CollapseAdjacent(Tail(blocks), nxt)

\* SequenceMatcher.get_matching_blocks: ends with the sentinel (len(a), len(b), 0).
get_matching_blocks(a, b) ==
  Append(CollapseAdjacent(MatchingBlocksIn(a, b, 0, Len(a), 0, Len(b)), <<0, 0, 0>>),
         <<Len(a), Len(b), 0>>)

RECURSIVE OpcodesFrom(_, _, _)
OpcodesFrom(blocks, i, j) ==
  IF blocks = << >> THEN << >>
  ELSE
    LET ai == Head(blocks)[1]
        bj == Head(blocks)[2]
        size == Head(blocks)[3]
        tag == IF i < ai /\ j < bj THEN "replace"
               ELSE IF i < ai THEN "delete"
               ELSE IF j < bj THEN "insert"
               ELSE ""
    IN (IF tag # "" THEN <<<<tag, i, ai, j, bj>>>> ELSE << >>)
       \o (IF size > 0 THEN <<<<"equal", ai, ai + size, bj, bj + size>>>> ELSE << >>)
       \o OpcodesFrom(Tail(blocks), ai + size, bj + size)

\* SequenceMatcher.get_opcodes: 5-tuples (tag, i1, i2, j1, j2).
get_opcodes(a, b) == OpcodesFrom(get_matching_blocks(a, b), 0, 0)

\* Lines of context around a change: difflib.unified_diff's default n.
ContextLines == 3

RECURSIVE GroupFrom(_, _, _)
\* The loop of get_grouped_opcodes: a long equal range ends the current group.
GroupFrom(codes, group, n) ==
  IF codes = << >>
  THEN (IF group # << >> /\ ~(Len(group) = 1 /\ group[1][1] = "equal")
        THEN <<group>> ELSE << >>)
  ELSE
    LET c == Head(codes)
    IN IF c[1] = "equal" /\ c[3] - c[2] > n + n
       THEN <<Append(group, <<c[1], c[2], Min(c[3], c[2] + n), c[4], Min(c[5], c[4] + n)>>)>>
            \o GroupFrom(Tail(codes),
                         <<<<c[1], Max(c[2], c[3] - n), c[3], Max(c[4], c[5] - n), c[5]>>>>, n)
       ELSE GroupFrom(Tail(codes), Append(group, c), n)

\* get_grouped_opcodes: "if not codes: codes = [("equal", 0, 1, 0, 1)]"
DefaultCodes(codes) == IF codes = << >> THEN <<<<"equal", 0, 1, 0, 1>>>> ELSE codes

\* get_grouped_opcodes: a leading equal range keeps its last n lines.
TrimLeading(codes, n) ==
  IF codes[1][1] = "equal"
  THEN [codes EXCEPT ![1] = <<@[1], Max(@[2], @[3] - n), @[3], Max(@[4], @[5] - n), @[5]>>]
  ELSE codes

\* get_grouped_opcodes: a trailing equal range keeps its first n lines.
TrimTrailing(codes, n) ==
  IF codes[Len(codes)][1] = "equal"
  THEN [codes EXCEPT ![Len(codes)] =
          <<@[1], @[2], Min(@[3], @[2] + n), @[4], Min(@[5], @[4] + n)>>]
  ELSE codes

\* SequenceMatcher.get_grouped_opcodes(n)
get_grouped_opcodes(a, b, n) ==
  GroupFrom(TrimTrailing(TrimLeading(DefaultCodes(get_opcodes(a, b)), n), n), << >>, n)

\* difflib._format_range_unified(start, stop)
format_range_unified(start, stop) ==
  LET beginning == start + 1
      length == stop - start
  IN IF length = 1 THEN str(beginning)
     ELSE IF length = 0 THEN str(beginning - 1) \o <<",">> \o str(length)
     ELSE str(beginning) \o <<",">> \o str(length)

\* The lines s[i1:i2] (0-based, half-open), each with prefix put before it.
Prefixed(prefix, s, i1, i2) == [x \in 1..(i2 - i1) |-> <<prefix>> \o s[i1 + x]]

RECURSIVE GroupLines(_, _, _)
\* The body lines unified_diff yields for one group of opcodes.
GroupLines(group, a, b) ==
  IF group = << >> THEN << >>
  ELSE
    LET c == Head(group)
    IN (IF c[1] = "equal" THEN Prefixed(" ", a, c[2], c[3])
        ELSE (IF c[1] \in {"replace", "delete"} THEN Prefixed("-", a, c[2], c[3]) ELSE << >>)
             \o (IF c[1] \in {"replace", "insert"} THEN Prefixed("+", b, c[4], c[5]) ELSE << >>))
       \o GroupLines(Tail(group), a, b)

RECURSIVE HunksText(_, _, _)
\* The header line and body lines of every group, in order.
HunksText(groups, a, b) ==
  IF groups = << >> THEN << >>
  ELSE
    LET g == Head(groups)
        first == g[1]
        last == g[Len(g)]
    IN << <<"@", "@", " ", "-">> \o format_range_unified(first[2], last[3])
          \o <<" ", "+">> \o format_range_unified(first[4], last[5])
          \o <<" ", "@", "@", NL>> >>
       \o GroupLines(g, a, b)
       \o HunksText(Tail(groups), a, b)

\* The lines unified_diff yields for the groups of opcodes: the two file header
\* lines before the first group, none without a group.
DiffLines(groups, a, b, fromfile, tofile) ==
  IF groups = << >> THEN << >>
  ELSE << <<"-", "-", "-", " ">> \o fromfile \o <<NL>>,
          <<"+", "+", "+", " ">> \o tofile \o <<NL>> >>
       \o HunksText(groups, a, b)

\* difflib.unified_diff(a, b, fromfile, tofile): the lines it yields.
unified_diff(a, b, fromfile, tofile) ==
  DiffLines(get_grouped_opcodes(a, b, ContextLines), a, b, fromfile, tofile)

\* The "ensure trailing newlines" step of create_unified_diff.
EnsureTrailingNewline(lines) ==
  IF lines # << >> /\ ~EndsWith(Last(lines), <<NL>>)
  THEN [lines EXCEPT ![Len(lines)] = @ \o <<NL>>]
  ELSE lines

create_unified_diff(old_content, new_content, block_name) ==
  LET old_lines == EnsureTrailingNewline(splitlines(old_content, TRUE))
      new_lines == EnsureTrailingNewline(splitlines(new_content, TRUE))
  IN Concat(unified_diff(old_lines, new_lines,
                         <<"a", "/">> \o NameText(block_name),
                         <<"b", "/">> \o NameText(block_name)))

\* ----------------------------------------------------------------- apply_diff

\* Position after the longest run of digits of line that starts at position p.
RECURSIVE DigitsEnd(_, _)
DigitsEnd(line, p) ==
  IF p <= Len(line) /\ IsDigit(line[p]) THEN DigitsEnd(line, p + 1) ELSE p

\* Whether the characters lit stand in line at position p.
LitAt(line, p, lit) ==
  /\ p + Len(lit) - 1 <= Len(line)
  /\ SubSeq(line, p, p + Len(lit) - 1) = lit

\* Position after an optional ",<digits>" group at position p.
OptCountEnd(line, p) ==
  IF LitAt(line, p, <<",">>) /\ DigitsEnd(line, p + 1) > p + 1
  THEN DigitsEnd(line, p + 1) ELSE p

\* re.match(r'@@ -(\d+)(?:,(\d+))? \+(\d+)(?:,(\d+))? @@', line): None, or
\* the groups 1 and 3 as integers.
match_hunk_header(line) ==
  LET p1 == 5
      p2 == DigitsEnd(line, p1)
      p3 == OptCountEnd(line, p2)
      p4 == p3 + 2
      p5 == DigitsEnd(line, p4)
      p6 == OptCountEnd(line, p5)
  IN IF /\ LitAt(line, 1, <<"@", "@", " ", "-">>)
        /\ p2 > p1
        /\ LitAt(line, p3, <<" ", "+">>)
        /\ p5 > p4
        /\ LitAt(line, p6, <<" ", "@", "@">>)
     THEN Some([old_start |-> int(SubSeq(line, p1, p2 - 1)),
                new_start |-> int(SubSeq(line, p4, p5 - 1))])
     ELSE None

\* One pass of the parsing loop of apply_diff over a line of the diff;
\* current_hunk is the last element of hunks (None while hunks is empty).
parse_line(hunks, line) ==
  IF StartsWith(line, <<"@", "@">>)
  THEN LET match == match_hunk_header(line)
       IN IF match # None
          THEN Append(hunks, [old_start |-> match[1].old_start,
                              new_start |-> match[1].new_start,
                              changes |-> << >>])
          ELSE hunks
  ELSE IF hunks # << >>
  THEN IF \/ StartsWith(line, <<"-">>)
          \/ StartsWith(line, <<"+">>)
          \/ StartsWith(line, <<" ">>)
       THEN [hunks EXCEPT ![Len(hunks)].changes = Append(@, <<line[1], Tail(line)>>)]
       ELSE hunks
  ELSE hunks

RECURSIVE parse_hunks(_, _)
\* The hunks apply_diff parses from the lines of a diff (hunks: those so far).
parse_hunks(diff_lines, hunks) ==
  IF diff_lines = << >> THEN hunks
  ELSE parse_hunks(Tail(diff_lines), parse_line(hunks, Head(diff_lines)))

\* Python's slice bounds: a negative index counts from the end, then both are
\* clamped to 0..len, and an end before the start is the start.
SliceIndex(i, len) ==
  LET j == IF i < 0 THEN i + len ELSE i
  IN IF j < 0 THEN 0 ELSE IF j > len THEN len ELSE j

\* result[start:stop] = new_lines
slice_assign(result, start, stop, new_lines) ==
  LET lo == SliceIndex(start, Len(result))
      hi == Max(lo, SliceIndex(stop, Len(result)))
  IN SubSeq(result, 1, lo) \o new_lines \o SubSeq(result, hi + 1, Len(result))

\* The op of a change as the hunk loop reads it: + and - swapped in reverse.
EffectiveOp(op, reverse) ==
  IF reverse THEN (IF op = "-" THEN "+" ELSE IF op = "+" THEN "-" ELSE op) ELSE op

\* The body of the loop over hunks in apply_diff: replaces the hunk's old lines.
apply_hunk(result, hunk, reverse) ==
  LET start == (IF reverse THEN hunk.new_start ELSE hunk.old_start) - 1
      kept == SelectSeq(hunk.changes, LAMBDA c : EffectiveOp(c[1], reverse) \in {" ", "+"})
      new_lines == [i \in 1..Len(kept) |-> kept[i][2]]
      counted == SelectSeq(hunk.changes,
                           LAMBDA c : (IF reverse THEN c[1] = "+" ELSE c[1] = "-") \/ c[1] = " ")
      old_count == Len(counted)
  IN slice_assign(result, start, start + old_count, new_lines)

RECURSIVE apply_hunks_first_to_last(_, _, _)
\* for hunk in hunks: the first hunk is applied first, and the line numbers of the
\* hunks after it no longer name the lines they were made for.
apply_hunks_first_to_last(result, hunks, reverse) ==
  IF hunks = << >> THEN result
  ELSE apply_hunks_first_to_last(apply_hunk(result, Head(hunks), reverse),
                                 Tail(hunks), reverse)

RECURSIVE apply_hunks(_, _, _)
\* for hunk in reversed(hunks): the last hunk is applied first.
apply_hunks(result, hunks, reverse) ==
  IF hunks = << >> THEN result
  ELSE apply_hunks(apply_hunk(result, Last(hunks), reverse),
                   SubSeq(hunks, 1, Len(hunks) - 1), reverse)

\* The list "result" of apply_diff when it returns: the lines of content with
\* every hunk applied (the lines of content when the diff holds no hunk).
patched_lines(content, diff_text, reverse) ==
  apply_hunks(splitlines(content, FALSE),
              parse_hunks(splitlines(diff_text, FALSE), << >>), reverse)

apply_diff(content, diff_text, reverse) ==
  LET lines == splitlines(content, FALSE)
      diff_lines == splitlines(diff_text, FALSE)
      hunks == parse_hunks(diff_lines, << >>)
  IN IF hunks = << >> THEN content
     ELSE Join(apply_hunks(lines, hunks, reverse), <<NL>>)

\* ------------------------------------------------------------------- state

VARIABLES
  snapshots,    \* <name>.json files: block name -> the record save_current_state wrote
  logs,         \* <name>.jsonl files: block name -> the entries appended, oldest first
  clock,        \* number of reads of datetime.now so far
  call,         \* the entry point that ran last, with what it was given
  out,          \* what the last run printed or built
  observed,     \* history variable: per block, the contents handle_hook processed
  writer,       \* a hook run taken statement by statement: its position and locals
  arg_old,      \* inputs of the diff functions
  arg_new,
  patch,        \* the diff text under test
  target,       \* the content apply_diff was given last
  result,       \* the list of lines apply_diff joined last
  applied,      \* the text apply_diff returned
  raised,       \* the exception the last call of apply_diff ended with, or None
  stage         \* which of the diff functions ran last

store_vars == <<snapshots, logs, clock, call, out, observed, writer>>

diff_vars == <<arg_old, arg_new, patch, target, result, applied, raised, stage>>

vars == <<snapshots, logs, clock, call, out, observed, writer,
          arg_old, arg_new, patch, target, result, applied, raised, stage>>

\* ------------------------------------------------------------------ inputs

\* Block labels the server returns; the hook writes files for these.
Names == {"human", "persona"}

\* sorted(): the order of the names.
NameOrder == <<"human", "persona">>

\* Block values the server returns: two that differ in the final line break only,
\* and one that differs in its line.
Contents == {<<"a">>, <<"a", NL>>, <<"b", NL>>}

\* The values of the second block.
PersonaContents == {<<"a">>, <<"b", NL>>}

AgentIds == {"", "agent-1"}

Statuses == {"success", "error"}

\* A block of the fetched list: block.get("label", ""), .get("value", ""),
\* .get("description", "").  One content comes under two descriptions; a block
\* without a label is skipped whatever it holds.
Blocks ==
  [label : {"human"}, value : Contents, description : {"about"}]
  \cup {[label |-> "human", value |-> <<"a">>, description |-> ""]}
  \cup [label : {"persona"}, value : PersonaContents, description : {"about"}]
  \cup {[label |-> "", value |-> << >>, description |-> ""]}

SeqsUpTo(S, n) == UNION {[1..k -> S] : k \in 0..n}

\* The lists the server returns: the labels of an agent's blocks are distinct.
Fetches ==
  {f \in SeqsUpTo(Blocks, MaxBlocks) :
     \A i, j \in 1..Len(f) : f[i].label = f[j].label => i = j}

\* ------------------------------------------------------- state management

\* datetime.now(timezone.utc).isoformat(): the reading that follows clock.
Timestamp(c) == ToString(c + 1)

\* A state file holds the JSON object save_current_state writes, or, while
\* write_text is under way, the part of its text written so far.
IsState(file) == "content" \in DOMAIN file

\* load_current_state: the stored content; None without a state file or with one
\* json.loads rejects.
load_current_state(snaps, block_name) ==
  IF block_name \in DOMAIN snaps /\ IsState(snaps[block_name])
  THEN Some(snaps[block_name].content) ELSE None

\* save_current_state with one state file for all blocks: the record replaces the
\* record of every block.
save_current_state_shared_file(snaps, block_name, content, description, now) ==
  [n \in DOMAIN snaps \cup {block_name} |->
     [block_name |-> block_name, content |-> content,
      updated_at |-> now, description |-> description]]

\* save_current_state: the state file is written whole.
save_current_state(snaps, block_name, content, description, now) ==
  [n \in DOMAIN snaps \cup {block_name} |->
     IF n = block_name
     THEN [block_name |-> block_name, content |-> content,
           updated_at |-> now, description |-> description]
     ELSE snaps[n]]

\* append_diff_log opening the log file with "w": the entry replaces the log.
append_diff_log_truncating(lg, block_name, diff_text, agent_id, now) ==
  [n \in DOMAIN lg \cup {block_name} |->
     IF n = block_name
     THEN <<[timestamp |-> now, diff |-> diff_text, agent_id |-> agent_id]>>
     ELSE lg[n]]

\* append_diff_log: one entry is added at the end of the log file.
append_diff_log(lg, block_name, diff_text, agent_id, now) ==
  [n \in DOMAIN lg \cup {block_name} |->
     IF n = block_name
     THEN Append(IF n \in DOMAIN lg THEN lg[n] ELSE << >>,
                 [timestamp |-> now, diff |-> diff_text, agent_id |-> agent_id])
     ELSE lg[n]]

\* A line of a log file holds a JSON entry, as append_diff_log writes it, or text
\* that json.loads rejects, or nothing but blanks.
IsEntry(line) == "diff" \in DOMAIN line

IsBlank(line) == ~IsEntry(line) /\ line.text = << >>

RECURSIVE read_entries(_)
\* The loop of load_diff_history: blank lines are skipped; at a line json.loads
\* rejects the loop ends ("except: pass") with the entries read before it.
read_entries(lines) ==
  IF lines = << >> THEN << >>
  ELSE IF IsEntry(Head(lines)) THEN <<Head(lines)>> \o read_entries(Tail(lines))
  ELSE IF IsBlank(Head(lines)) THEN read_entries(Tail(lines))
  ELSE << >>

\* load_diff_history: the entries of the log file, [] without one.
load_diff_history(lg, block_name) ==
  IF block_name \in DOMAIN lg THEN read_entries(lg[block_name]) ELSE << >>

\* ------------------------------------------------------------ hook handler

\* The history variable after one more processed observation.
Observe(obs, block_name, content) ==
  [n \in DOMAIN obs \cup {block_name} |->
     IF n # block_name THEN obs[n]
     ELSE IF n \notin DOMAIN obs THEN [seq |-> <<content>>, norepeat |-> TRUE]
     ELSE IF Last(obs[n].seq) = content THEN [obs[n] EXCEPT !.norepeat = FALSE]
     ELSE [obs[n] EXCEPT !.seq = Append(@, content)]]

\* record_change with the save moved under "if diff_text:": a change that yields
\* no diff leaves the stored state as it was.
record_change_saving_only_logged(st, block, agent_id, diff_text) ==
  IF diff_text # << >>
  THEN [snapshots |-> save_current_state(st.snapshots, block.label, block.value,
                                         block.description, Timestamp(st.clock + 1)),
        logs |-> append_diff_log(st.logs, block.label, diff_text, agent_id,
                                 Timestamp(st.clock)),
        clock |-> st.clock + 2]
  ELSE st

\* record_change without the test "if diff_text:": the diff is logged also when it
\* is empty.
record_change_logging_always(st, block, agent_id, diff_text) ==
  [snapshots |-> save_current_state(st.snapshots, block.label, block.value,
                                    block.description, Timestamp(st.clock + 1)),
   logs |-> append_diff_log(st.logs, block.label, diff_text, agent_id,
                            Timestamp(st.clock)),
   clock |-> st.clock + 2]

\* The "content changed" branch of the loop body of handle_hook, with diff_text
\* the diff create_unified_diff returned: logged unless empty, then the state saved.
record_change(st, block, agent_id, diff_text) ==
  IF diff_text # << >>
  THEN [snapshots |-> save_current_state(st.snapshots, block.label, block.value,
                                         block.description, Timestamp(st.clock + 1)),
        logs |-> append_diff_log(st.logs, block.label, diff_text, agent_id,
                                 Timestamp(st.clock)),
        clock |-> st.clock + 2]
  ELSE [snapshots |-> save_current_state(st.snapshots, block.label, block.value,
                                         block.description, Timestamp(st.clock)),
        logs |-> st.logs,
        clock |-> st.clock + 1]

\* process_block without the test "local_content != server_content": a block whose
\* content is the stored one is diffed and saved again.
process_block_always_saving(st, block, agent_id) ==
  IF block.label = "" THEN st
  ELSE IF load_current_state(st.snapshots, block.label) = None
  THEN [snapshots |-> save_current_state(st.snapshots, block.label, block.value,
                                         block.description, Timestamp(st.clock)),
        logs |-> st.logs,
        clock |-> st.clock + 1]
  ELSE record_change(st, block, agent_id,
                     create_unified_diff(load_current_state(st.snapshots, block.label)[1],
                                         block.value, block.label))

\* process_block logging the first content as a diff against the empty text.
process_block_logging_first(st, block, agent_id) ==
  IF block.label = "" THEN st
  ELSE IF load_current_state(st.snapshots, block.label) = None
  THEN record_change(st, block, agent_id,
                     create_unified_diff(<< >>, block.value, block.label))
  ELSE IF load_current_state(st.snapshots, block.label)[1] # block.value
  THEN record_change(st, block, agent_id,
                     create_unified_diff(load_current_state(st.snapshots, block.label)[1],
                                         block.value, block.label))
  ELSE st

\* The body of the loop over blocks in handle_hook, on st = (snapshots, logs, clock).
process_block(st, block, agent_id) ==
  LET block_name == block.label
      server_content == block.value
      local_content == load_current_state(st.snapshots, block_name)
  IN IF block_name = "" THEN st
     ELSE IF local_content = None
     THEN [snapshots |-> save_current_state(st.snapshots, block_name, server_content,
                                            block.description, Timestamp(st.clock)),
           logs |-> st.logs,
           clock |-> st.clock + 1]
     ELSE IF local_content[1] # server_content
     THEN record_change(st, block, agent_id,
                        create_unified_diff(local_content[1], server_content, block_name))
     ELSE st

RECURSIVE process_blocks(_, _, _)
\* for block in blocks: ...
process_blocks(st, blocks, agent_id) ==
  IF blocks = << >> THEN st
  ELSE process_blocks(process_block(st, Head(blocks), agent_id), Tail(blocks), agent_id)

RECURSIVE ObserveAll(_, _)
ObserveAll(obs, blocks) ==
  IF blocks = << >> THEN obs
  ELSE ObserveAll(IF Head(blocks).label = "" THEN obs
                  ELSE Observe(obs, Head(blocks).label, Head(blocks).value),
                  Tail(blocks))

\* handle_hook without its two early returns: the blocks are fetched and processed
\* whatever the status of the tool result and the agent id are.
handle_hook_unguarded(data, fetched) ==
  /\ \E st \in {process_blocks([snapshots |-> snapshots, logs |-> logs, clock |-> clock],
                                fetched, data.agent_id)} :
       /\ st.clock <= MaxClock
       /\ snapshots' = st.snapshots
       /\ logs' = st.logs
       /\ clock' = st.clock
  /\ observed' = ObserveAll(observed, fetched)
  /\ call' = [op |-> "hook", agent_id |-> data.agent_id, status |-> data.status,
              nblocks |-> Len(fetched),
              labels |-> {fetched[i].label : i \in 1..Len(fetched)} \ {""}]
  /\ out' = [kind |-> "none"]

\* handle_hook(data), with fetched the list fetch_all_memory_blocks returns; the
\* guards on the status and the agent id return before the fetch.
handle_hook(data, fetched) ==
  /\ ~(data.status = "success" /\ data.agent_id # "") => fetched = << >>
  /\ \E st \in {process_blocks([snapshots |-> snapshots, logs |-> logs, clock |-> clock],
                                fetched, data.agent_id)} :
       /\ st.clock <= MaxClock
       /\ snapshots' = st.snapshots
       /\ logs' = st.logs
       /\ clock' = st.clock
  /\ observed' = ObserveAll(observed, fetched)
  /\ call' = [op |-> "hook", agent_id |-> data.agent_id, status |-> data.status,
              nblocks |-> Len(fetched),
              labels |-> {fetched[i].label : i \in 1..Len(fetched)} \ {""}]
  /\ out' = [kind |-> "none"]

\* ------------------------------------------------------------ CLI commands

\* The rows cmd_list prints, sorted by name; a state file json.loads rejects gives
\* no row.
ListRows(snaps, lg) ==
  LET tracked == SelectSeq(NameOrder, LAMBDA n : n \in DOMAIN snaps /\ IsState(snaps[n]))
  IN [i \in 1..Len(tracked) |->
        [name |-> tracked[i],
         size |-> Len(snaps[tracked[i]].content),
         history |-> IF tracked[i] \in DOMAIN lg THEN Len(lg[tracked[i]]) ELSE 0,
         updated |-> snaps[tracked[i]].updated_at]]

cmd_list ==
  /\ out' = IF ListRows(snapshots, logs) = << >>
            THEN [kind |-> "none_tracked"]
            ELSE [kind |-> "list", rows |-> ListRows(snapshots, logs)]
  /\ call' = [op |-> "list"]
  /\ UNCHANGED <<snapshots, logs, clock, observed>>

cmd_show(block_name) ==
  /\ out' = IF block_name \notin DOMAIN snapshots
            THEN [kind |-> "not_found", available |-> DOMAIN snapshots]
            ELSE IF ~IsState(snapshots[block_name])
            THEN [kind |-> "read_error"]
            ELSE [kind |-> "content", content |-> snapshots[block_name].content]
  /\ call' = [op |-> "show", block_name |-> block_name]
  /\ UNCHANGED <<snapshots, logs, clock, observed>>

RECURSIVE build_versions_appending(_, _, _)
\* build_versions with versions.append in place of versions.insert(0, ...).
build_versions_appending(history, content, versions) ==
  IF history = << >> THEN versions
  ELSE IF Last(history).diff # << >>
  THEN build_versions_appending(
         SubSeq(history, 1, Len(history) - 1),
         apply_diff(content, Last(history).diff, TRUE),
         Append(versions, [content |-> apply_diff(content, Last(history).diff, TRUE),
                           timestamp |-> Last(history).timestamp,
                           diff |-> Some(Last(history).diff)]))
  ELSE build_versions_appending(SubSeq(history, 1, Len(history) - 1), content, versions)

RECURSIVE build_versions(_, _, _)
\* The loop "for entry in reversed(history)" of cmd_history: content is the
\* running content, versions the list built so far (oldest first).
build_versions(history, content, versions) ==
  IF history = << >> THEN versions
  ELSE
    LET entry == Last(history)
        rest == SubSeq(history, 1, Len(history) - 1)
        diff_text == entry.diff
    IN IF diff_text # << >>
       THEN LET previous == apply_diff(content, diff_text, TRUE)
            IN build_versions(rest, previous,
                              <<[content |-> previous, timestamp |-> entry.timestamp,
                                 diff |-> Some(diff_text)]>> \o versions)
       ELSE build_versions(rest, content, versions)

\* What getch returns: the arrow keys, the letters the loop knows, Ctrl+C, and a key
\* it does not know.
Keys == {"left", "p", "h", "right", "n", "l", "d", "q", "ctrl-c", "x"}

\* cmd_history from "current_idx = len(versions) - 1" to the first getch of the loop:
\* the current version is displayed; no key was read, the loop runs, and no diff is
\* on display waiting for a key.
start_navigation(versions) ==
  [kind |-> "versions", versions |-> versions, current_idx |-> Len(versions) - 1,
   key |-> "", running |-> TRUE, waiting |-> FALSE]

\* navigate moving to the next version without the test against the last index.
navigate_unbounded(nav, key) ==
  IF nav.waiting THEN [nav EXCEPT !.key = key, !.waiting = FALSE]
  ELSE IF key \in {"q", "ctrl-c"} THEN [nav EXCEPT !.key = key, !.running = FALSE]
  ELSE IF key \in {"left", "p", "h"}
  THEN [nav EXCEPT !.key = key, !.current_idx = IF @ > 0 THEN @ - 1 ELSE @]
  ELSE IF key \in {"right", "n", "l"}
  THEN [nav EXCEPT !.key = key, !.current_idx = @ + 1]
  ELSE IF key = "d"
  THEN [nav EXCEPT !.key = key,
                   !.waiting = nav.versions[nav.current_idx + 1].diff # None]
  ELSE [nav EXCEPT !.key = key]

\* One getch of cmd_history and what follows it: inside the branch of "d", after the
\* diff was written, the key read is dropped and the version displayed again; in the
\* loop the key ends the loop, moves the index, or shows the diff of the version if
\* it has one.
navigate(nav, key) ==
  IF nav.waiting THEN [nav EXCEPT !.key = key, !.waiting = FALSE]
  ELSE IF key \in {"q", "ctrl-c"} THEN [nav EXCEPT !.key = key, !.running = FALSE]
  ELSE IF key \in {"left", "p", "h"}
  THEN [nav EXCEPT !.key = key, !.current_idx = IF @ > 0 THEN @ - 1 ELSE @]
  ELSE IF key \in {"right", "n", "l"}
  THEN [nav EXCEPT !.key = key,
                   !.current_idx = IF @ < Len(nav.versions) - 1 THEN @ + 1 ELSE @]
  ELSE IF key = "d"
  THEN [nav EXCEPT !.key = key,
                   !.waiting = nav.versions[nav.current_idx + 1].diff # None]
  ELSE [nav EXCEPT !.key = key]

\* history_output without the test "if not state_file.exists()": a block without a
\* state file is read as one with the empty content.
history_output_defaulting(snaps, lg, block_name) ==
  LET current_content == IF block_name \in DOMAIN snaps
                         THEN snaps[block_name].content ELSE << >>
      history == load_diff_history(lg, block_name)
  IN IF history = << >>
     THEN [kind |-> "no_history", content |-> current_content]
     ELSE start_navigation(build_versions(history, current_content,
                                          <<[content |-> current_content,
                                             timestamp |-> "current", diff |-> None]>>))

\* What cmd_history shows: nothing found, the current content alone when the
\* log holds no entry, or the version list it then navigates.
history_output(snaps, lg, block_name) ==
  IF block_name \notin DOMAIN snaps THEN [kind |-> "not_found"]
  ELSE IF ~IsState(snaps[block_name]) THEN [kind |-> "read_error"]
  ELSE
    LET current_content == snaps[block_name].content
        history == load_diff_history(lg, block_name)
    IN IF history = << >>
       THEN [kind |-> "no_history", content |-> current_content]
       ELSE start_navigation(build_versions(history, current_content,
                                            <<[content |-> current_content,
                                               timestamp |-> "current", diff |-> None]>>))

cmd_history(block_name) ==
  /\ out' = history_output(snapshots, logs, block_name)
  /\ call' = [op |-> "history", block_name |-> block_name]
  /\ UNCHANGED <<snapshots, logs, clock, observed>>

\* The navigation loop of cmd_history reads a key.
cmd_history_key(key) ==
  /\ call.op = "history"
  /\ out.kind = "versions"
  /\ out.running
  /\ out' = navigate(out, key)
  /\ UNCHANGED <<snapshots, logs, clock, call, observed>>

\* ------------------------------------------------------- the logger's runs

NoDiffRun ==
  /\ arg_old = << >>
  /\ arg_new = << >>
  /\ patch = << >>
  /\ target = << >>
  /\ result = << >>
  /\ applied = << >>
  /\ raised = None
  /\ stage = "idle"

\* Nothing is stored before the first hook runs.
Init ==
  /\ snapshots = << >>
  /\ logs = << >>
  /\ clock = 0
  /\ call = [op |-> "none"]
  /\ out = [kind |-> "none"]
  /\ observed = << >>
  /\ writer = [pc |-> "idle"]
  /\ NoDiffRun

Hook ==
  /\ \E data \in [agent_id : AgentIds, status : Statuses] :
       \E fetched \in Fetches : handle_hook(data, fetched)
  /\ UNCHANGED writer
  /\ UNCHANGED diff_vars

List == cmd_list /\ UNCHANGED writer /\ UNCHANGED diff_vars

Show ==
  /\ \E block_name \in Names : cmd_show(block_name)
  /\ UNCHANGED writer
  /\ UNCHANGED diff_vars

History ==
  /\ \E block_name \in Names : cmd_history(block_name)
  /\ UNCHANGED writer
  /\ UNCHANGED diff_vars

Key ==
  /\ \E key \in Keys : cmd_history_key(key)
  /\ UNCHANGED writer
  /\ UNCHANGED diff_vars

\* A run of the logger: a hook run, or a command up to its first read of a key; the
\* keys of a history session are read over the stored files of ReconSpec.
Next == Hook \/ List \/ Show \/ History

Spec == Init /\ [][Next]_vars

\* ------------------------------------------------- runs of the diff functions

\* The characters of the texts handed to the diff functions.
Chars == {"a", "b", NL}

Texts == SeqsUpTo(Chars, MaxLen)

NoStore ==
  /\ snapshots = << >>
  /\ logs = << >>
  /\ clock = 0
  /\ call = [op |-> "none"]
  /\ out = [kind |-> "none"]
  /\ observed = << >>
  /\ writer = [pc |-> "idle"]

DiffInit ==
  /\ NoStore
  /\ arg_old \in Texts
  /\ arg_new \in Texts
  /\ patch = << >>
  /\ target = << >>
  /\ result = << >>
  /\ applied = << >>
  /\ raised = None
  /\ stage = "start"

\* The exception a call of apply_diff ends with: the function holds no raise, a
\* header line the pattern does not match falls through "if match:", and a slice
\* assignment accepts any bounds, so there is none.
apply_diff_error(content, diff_text, reverse) == None

\* patch = create_unified_diff(old, new, "human")
Diff ==
  /\ stage = "start"
  /\ patch' = create_unified_diff(arg_old, arg_new, "human")
  /\ stage' = "diffed"
  /\ UNCHANGED <<arg_old, arg_new, target, result, applied, raised>>
  /\ UNCHANGED store_vars

\* applied = apply_diff(old, patch)
ApplyForward ==
  /\ stage = "diffed"
  /\ target' = arg_old
  /\ result' = patched_lines(arg_old, patch, FALSE)
  /\ applied' = apply_diff(arg_old, patch, FALSE)
  /\ raised' = apply_diff_error(arg_old, patch, FALSE)
  /\ stage' = "forward"
  /\ UNCHANGED <<arg_old, arg_new, patch>>
  /\ UNCHANGED store_vars

\* applied = apply_diff(applied, patch, reverse=True), after the forward call
ApplyBack ==
  /\ stage = "forward"
  /\ target' = applied
  /\ result' = patched_lines(applied, patch, TRUE)
  /\ applied' = apply_diff(applied, patch, TRUE)
  /\ raised' = apply_diff_error(applied, patch, TRUE)
  /\ stage' = "back"
  /\ UNCHANGED <<arg_old, arg_new, patch>>
  /\ UNCHANGED store_vars

\* applied = apply_diff(new, patch, reverse=True)
ApplyReverse ==
  /\ stage = "diffed"
  /\ target' = arg_new
  /\ result' = patched_lines(arg_new, patch, TRUE)
  /\ applied' = apply_diff(arg_new, patch, TRUE)
  /\ raised' = apply_diff_error(arg_new, patch, TRUE)
  /\ stage' = "reverse"
  /\ UNCHANGED <<arg_old, arg_new, patch>>
  /\ UNCHANGED store_vars

\* A hunk header line without its closing marker: "@@ -1 +1,2 @@" -> "@@ -1 +1,2".
Unclosed(line) == SubSeq(line, 1, Len(line) - 4) \o <<NL>>

\* A hunk header line whose first range is no number: "@@ -1 ..." -> "@@ -x ...".
NonNumeric(line) == [line EXCEPT ![5] = "x"]

IsHeaderLine(line) == StartsWith(line, <<"@", "@">>)

\* The texts that differ from diff_text in one hunk header line, made malformed.
Malformed(diff_text) ==
  UNION {{Concat([lines EXCEPT ![i] = Unclosed(@)]),
          Concat([lines EXCEPT ![i] = NonNumeric(@)])} :
           lines \in {splitlines(diff_text, TRUE)},
           i \in {j \in 1..Len(splitlines(diff_text, TRUE)) :
                    IsHeaderLine(splitlines(diff_text, TRUE)[j])}}

\* The patch text is damaged before it is applied.
Damage ==
  /\ stage = "diffed"
  /\ patch' \in Malformed(patch)
  /\ stage' = "damaged"
  /\ UNCHANGED <<arg_old, arg_new, target, result, applied, raised>>
  /\ UNCHANGED store_vars

\* applied = apply_diff(old, patch) with the damaged patch
ApplyDamaged ==
  /\ stage = "damaged"
  /\ target' = arg_old
  /\ result' = patched_lines(arg_old, patch, FALSE)
  /\ applied' = apply_diff(arg_old, patch, FALSE)
  /\ raised' = apply_diff_error(arg_old, patch, FALSE)
  /\ stage' = "damaged_applied"
  /\ UNCHANGED <<arg_old, arg_new, patch>>
  /\ UNCHANGED store_vars

\* Whether the lines a hunk replaces, result[start:start + old_count] with
\* start = old_start - 1 (new_start - 1 in reverse), all exist in result; a hunk
\* that replaces no line names the line it inserts after.
RangeFits(lines, hunk, reverse) ==
  LET first == IF reverse THEN hunk.new_start ELSE hunk.old_start
      old_count == Len(SelectSeq(hunk.changes,
                                 LAMBDA c : (IF reverse THEN c[1] = "+" ELSE c[1] = "-")
                                            \/ c[1] = " "))
  IN IF old_count = 0 THEN first <= Len(lines)
     ELSE first >= 1 /\ first + old_count - 1 <= Len(lines)

RECURSIVE FitsAll(_, _, _)
\* Whether every hunk fits the list it is applied to, in the order of the loop.
FitsAll(lines, hunks, reverse) ==
  \/ hunks = << >>
  \/ /\ RangeFits(lines, Last(hunks), reverse)
     /\ FitsAll(apply_hunk(lines, Last(hunks), reverse),
                SubSeq(hunks, 1, Len(hunks) - 1), reverse)

\* Contents that have diverged from the texts a patch was made of.
DivergedContents == {<< >>, <<"a">>}

\* applied = apply_diff(content, patch, reverse) with a content that is too short
\* for a hunk of the patch
ApplyDiverged ==
  /\ stage = "diffed"
  /\ \E content \in DivergedContents, reverse \in BOOLEAN :
       /\ ~FitsAll(splitlines(content, FALSE),
                   parse_hunks(splitlines(patch, FALSE), << >>), reverse)
       /\ target' = content
       /\ result' = patched_lines(content, patch, reverse)
       /\ applied' = apply_diff(content, patch, reverse)
       /\ raised' = apply_diff_error(content, patch, reverse)
       /\ stage' = IF reverse THEN "diverged_reverse" ELSE "diverged_forward"
  /\ UNCHANGED <<arg_old, arg_new, patch>>
  /\ UNCHANGED store_vars

DiffNext ==
  Diff \/ ApplyForward \/ ApplyBack \/ ApplyReverse \/ Damage \/ ApplyDamaged \/ ApplyDiverged

DiffSpec == DiffInit /\ [][DiffNext]_vars

\* ------------------------------------------- diffs of texts of several lines

\* The lines two texts share between their ends: as many as two hunks with their
\* context can share without being separated, and one more.
SharedLines(k) == [i \in 1..k |-> str(i)]

Gaps == {2 * ContextLines, 2 * ContextLines + 1}

\* The lines a text begins or ends with.
Ends == {<< >>, <<<<"b">>>>, <<<<"c">>>>, <<<<"b">>, <<"c">>>>}

\* A text of lines, each with its line break.
TextOf(lines) == Concat([i \in 1..Len(lines) |-> lines[i] \o <<NL>>])

\* Two texts that share their middle lines and may differ at both ends.
MultiInit ==
  /\ NoStore
  /\ \E k \in Gaps, h1, t1, h2, t2 \in Ends :
       /\ arg_old = TextOf(h1 \o SharedLines(k) \o t1)
       /\ arg_new = TextOf(h2 \o SharedLines(k) \o t2)
  /\ patch = << >>
  /\ target = << >>
  /\ result = << >>
  /\ applied = << >>
  /\ raised = None
  /\ stage = "start"

MultiNext == Diff \/ ApplyForward \/ ApplyBack \/ ApplyReverse

MultiSpec == MultiInit /\ [][MultiNext]_vars

\* ------------------------------------------- reconstruction from stored files

\* The diff fields a log read from disk may hold: the diffs the hook writes, an
\* empty one, and text that is no diff.
StoredDiffs ==
  {create_unified_diff(x, y, "human") : x, y \in Contents} \cup {<<"x", NL>>}

\* The lines a log file read from disk may hold: an entry with one of the diffs, a
\* line cut short that json.loads rejects, a blank line.
StoredLines ==
  {<<"entry", d>> : d \in StoredDiffs}
  \cup {<<"text", <<"{">>>>, <<"text", << >>>>}

\* A log file as load_diff_history finds it: entries in the format of
\* append_diff_log, stamped in the order they were written, and other lines.
StoredLog(diffs) ==
  [i \in 1..Len(diffs) |->
     IF diffs[i][1] = "entry"
     THEN [timestamp |-> Timestamp(i - 1), diff |-> diffs[i][2], agent_id |-> "agent-1"]
     ELSE [text |-> diffs[i][2]]]

\* The files of one block as cmd_history finds them.
ReconInit ==
  /\ \E content \in Contents, diffs \in SeqsUpTo(StoredLines, MaxLog) :
       /\ snapshots = [n \in {"human"} |->
                         [block_name |-> "human", content |-> content,
                          updated_at |-> Timestamp(Len(diffs)), description |-> "about"]]
       /\ logs = [n \in {"human"} |-> StoredLog(diffs)]
       /\ clock = Len(diffs) + 1
  /\ call = [op |-> "none"]
  /\ out = [kind |-> "none"]
  /\ observed = << >>
  /\ writer = [pc |-> "idle"]
  /\ NoDiffRun

ReconNext == List \/ Show \/ History \/ Key

ReconSpec == ReconInit /\ [][ReconNext]_vars

\* ------------------------------- a hook run interleaved with the CLI commands

\* The blocks the hook run processes: one block, fetched alone.
WriterBlocks == {b \in Blocks : b.label = "human" /\ b.description # ""}

\* A state file between the open of write_text, which empties it, and the end of
\* the write: nothing of the text, or a part of it, is in the file.
TornFile(part) == [torn |-> part]

\* The hook run after "if local_content != server_content" was found true and the
\* diff was made: it goes on to append_diff_log, or to save_current_state when the
\* diff is empty.
writer_changed(block, local_content, diff_text) ==
  [pc |-> IF diff_text # << >> THEN "append" ELSE "open",
   block |-> block, local_content |-> local_content, diff_text |-> diff_text, now |-> ""]

\* The hook run after load_current_state returned local_content.
writer_loaded(block, local_content) ==
  IF local_content = None
  THEN [pc |-> "open", block |-> block, local_content |-> None,
        diff_text |-> << >>, now |-> ""]
  ELSE IF local_content[1] # block.value
  THEN writer_changed(block, local_content,
                      create_unified_diff(local_content[1], block.value, block.label))
  ELSE [pc |-> "idle"]

\* handle_hook up to the test of the loaded content, for a fetch of one block.
WriterBegin ==
  /\ writer.pc = "idle"
  /\ clock + 2 <= MaxClock
  /\ \E block \in WriterBlocks :
       /\ writer' = writer_loaded(block, load_current_state(snapshots, block.label))
       /\ observed' = Observe(observed, block.label, block.value)
       /\ call' = [op |-> "hook", agent_id |-> "agent-1", status |-> "success",
                   nblocks |-> 1, labels |-> {block.label}]
  /\ out' = [kind |-> "none"]
  /\ UNCHANGED <<snapshots, logs, clock>>
  /\ UNCHANGED diff_vars

\* append_diff_log(logs_dir, block_name, diff_text, {"agent_id": agent_id})
WriterAppend ==
  /\ writer.pc = "append"
  /\ logs' = append_diff_log(logs, writer.block.label, writer.diff_text,
                             "agent-1", Timestamp(clock))
  /\ clock' = clock + 1
  /\ writer' = [writer EXCEPT !.pc = "open"]
  /\ UNCHANGED <<snapshots, call, out, observed>>
  /\ UNCHANGED diff_vars

\* save_current_state up to the open inside write_text: the record is built with
\* the time read, the state file is opened with mode "w" and is empty.
WriterOpen ==
  /\ writer.pc = "open"
  /\ snapshots' = [n \in DOMAIN snapshots \cup {writer.block.label} |->
                     IF n = writer.block.label THEN TornFile("nothing")
                     ELSE snapshots[n]]
  /\ clock' = clock + 1
  /\ writer' = [writer EXCEPT !.pc = "write", !.now = Timestamp(clock)]
  /\ UNCHANGED <<logs, call, out, observed>>
  /\ UNCHANGED diff_vars

\* A text longer than the buffer reaches the file in several writes: a first part
\* is in the file.
WriterWritePart ==
  /\ writer.pc = "write"
  /\ snapshots[writer.block.label] = TornFile("nothing")
  /\ snapshots' = [snapshots EXCEPT ![writer.block.label] = TornFile("part")]
  /\ UNCHANGED <<logs, clock, call, out, observed, writer>>
  /\ UNCHANGED diff_vars

\* The end of write_text: the whole text is in the file, and the hook run ends.
WriterWrite ==
  /\ writer.pc = "write"
  /\ snapshots' = save_current_state(snapshots, writer.block.label, writer.block.value,
                                     writer.block.description, writer.now)
  /\ writer' = [pc |-> "idle"]
  /\ UNCHANGED <<logs, clock, call, out, observed>>
  /\ UNCHANGED diff_vars

\* The hook process stops between two of its statements, after it has written to
\* one of the files.
WriterStop ==
  /\ \/ writer.pc = "write"
     \/ writer.pc = "open" /\ writer.diff_text # << >>
  /\ writer' = [pc |-> "idle"]
  /\ UNCHANGED <<snapshots, logs, clock, call, out, observed>>
  /\ UNCHANGED diff_vars

InterleavedNext ==
  \/ WriterBegin \/ WriterAppend \/ WriterOpen \/ WriterWritePart \/ WriterWrite
  \/ WriterStop \/ List \/ Show \/ History

InterleavedSpec == Init /\ [][InterleavedNext]_vars

\* ------------------------------------------------------------------ claims

\* C1. Round trip: the patch create_unified_diff(old, new) produces, applied
\* forward to old by apply_diff, yields exactly new, final terminator included.
C1_RoundTrip == stage = "forward" => applied = arg_new

\* C2. Involution: reverse-applying the patch to the result of forward-applying it to
\* old gives back exactly old, and so does reverse-applying it to new.
C2_Involution == stage \in {"back", "reverse"} => applied = arg_old

\* The contents cmd_history shows, oldest first.
ShownContents(o) ==
  IF o.kind = "versions" THEN [i \in 1..Len(o.versions) |-> o.versions[i].content]
  ELSE IF o.kind = "no_history" THEN <<o.content>>
  ELSE << >>

\* C3. After k >= 1 observations of a block, each differing from the one before, the
\* history cmd_history builds has k versions whose contents are the k observed
\* contents in order.
C3_HistoryIsObservations ==
  (/\ call.op = "history"
   /\ call.block_name \in DOMAIN observed
   /\ observed[call.block_name].norepeat)
  => ShownContents(out) = observed[call.block_name].seq

\* C4. Reconstruction length: for any log read for a block, whatever its entries
\* hold, the version list built has exactly len(log) + 1 elements.
C4_ReconstructionLength ==
  (call.op = "history" /\ out.kind = "versions")
  => Len(out.versions) = Len(load_diff_history(logs, call.block_name)) + 1

\* C5. Reconstruction endpoint: the last element of every version list built holds the
\* stored snapshot content, is labelled current and carries no patch; every other
\* element carries the patch and timestamp of its log entry, in log order.
C5_ReconstructionEndpoint ==
  (call.op = "history" /\ out.kind = "versions")
  => LET versions == out.versions
         history == load_diff_history(logs, call.block_name)
     IN /\ Len(versions) = Len(history) + 1
        /\ Last(versions).content = snapshots[call.block_name].content
        /\ Last(versions).timestamp = "current"
        /\ Last(versions).diff = None
        /\ \A i \in 1..Len(history) :
             /\ versions[i].diff = Some(history[i].diff)
             /\ versions[i].timestamp = history[i].timestamp

\* A list of three versions was built: two log entries and the current snapshot.
C5_Witness ==
  /\ call.op = "history"
  /\ out.kind = "versions"
  /\ Len(out.versions) = 3

\* C6. The snapshot tracks the latest observation: after handle_hook has processed an
\* observation of a named block, the stored content of that block is the observed
\* content, whether the block was new, changed or unchanged.
C6_SnapshotIsLatestObservation ==
  \A n \in DOMAIN observed :
    /\ n \in DOMAIN snapshots
    /\ snapshots[n].content = Last(observed[n].seq)

\* A block was observed with a second content that yields no diff against the first
\* (nothing was logged), and a block was observed again with the stored content.
C6_Witness ==
  /\ \E n \in DOMAIN observed :
       Len(observed[n].seq) >= 2 /\ load_diff_history(logs, n) = << >>
  /\ \E n \in DOMAIN observed : ~observed[n].norepeat

\* C7. Idempotent recording: a hook run that observes a block with the content its
\* snapshot already holds appends no log entry and leaves the snapshot record
\* (content, updated_at, description) as it was.
C7_IdempotentRecording ==
  [][\A n \in Names :
       (/\ call'.op = "hook"
        /\ n \in call'.labels
        /\ n \in DOMAIN snapshots
        /\ Last(observed'[n].seq) = snapshots[n].content)
       => /\ snapshots'[n] = snapshots[n]
          /\ (n \in DOMAIN logs') = (n \in DOMAIN logs)
          /\ load_diff_history(logs', n) = load_diff_history(logs, n)]_vars

\* The last hook run observed a block again with its stored content: one file was
\* ever written, the block's first snapshot.
C7_Witness ==
  /\ call.op = "hook"
  /\ clock = 1
  /\ \E n \in call.labels : ~observed[n].norepeat

\* C8. The first observation initializes: a block observed with one content only has a
\* snapshot holding that content and no log entry, and its history is the current
\* content alone, with no patch.
C8_FirstObservationInitializes ==
  \A n \in DOMAIN observed :
    Len(observed[n].seq) = 1
    => /\ n \in DOMAIN snapshots
       /\ snapshots[n].content = observed[n].seq[1]
       /\ load_diff_history(logs, n) = << >>
       /\ (call.op = "history" /\ call.block_name = n)
          => out = [kind |-> "no_history", content |-> observed[n].seq[1]]

\* cmd_history ran for a block observed once.
C8_Witness ==
  /\ call.op = "history"
  /\ call.block_name \in DOMAIN observed
  /\ Len(observed[call.block_name].seq) = 1
  /\ observed[call.block_name].norepeat

\* C9. Append-only log: every step (a hook run, list, show, history) leaves each entry
\* of each log at its position, unchanged, and only adds entries at the end.
C9_AppendOnlyLog ==
  [][\A n \in DOMAIN logs :
       /\ n \in DOMAIN logs'
       /\ Len(logs'[n]) >= Len(logs[n])
       /\ SubSeq(logs'[n], 1, Len(logs[n])) = logs[n]]_vars

\* A log holds two entries: the second was appended behind the first.
C9_Witness == \E n \in DOMAIN logs : Len(logs[n]) = 2

\* C10. Malformed patch rejection: applying a patch text with a malformed hunk header
\* line (closing marker missing, or a range that is no number) ends with a
\* MalformedPatchError.
C10_MalformedRejected ==
  stage = "damaged_applied" => raised = Some("MalformedPatchError")

\* C11. Patch bounds checking: applying a patch to a content in which the range of a
\* hunk does not fit (forward or in reverse) ends with a PatchMismatchError; no text
\* is returned.
C11_MismatchRejected ==
  stage \in {"diverged_forward", "diverged_reverse"}
  => raised = Some("PatchMismatchError")

\* The lines of the log file of a block, as stored.
LogLines(block_name) == IF block_name \in DOMAIN logs THEN logs[block_name] ELSE << >>

\* A line of a log that reconstruction cannot use: text that is no JSON entry, or an
\* entry whose diff holds no hunk to apply.
Unusable(line) ==
  IF IsEntry(line) THEN parse_hunks(splitlines(line.diff, FALSE), << >>) = << >>
  ELSE ~IsBlank(line)

\* C12. No silent loss of history: when cmd_history meets a log line that cannot be
\* parsed or an entry whose patch cannot be applied, it ends with an error and builds
\* no version list; a version list it builds has one version for every entry of the
\* log file besides the current one.
C12_NoSilentLoss ==
  call.op = "history"
  => LET lines == LogLines(call.block_name)
     IN /\ (\E i \in 1..Len(lines) : Unusable(lines[i])) => out.kind = "corrupted"
        /\ out.kind = "versions"
           => Len(out.versions) = Len(SelectSeq(lines, LAMBDA l : ~IsBlank(l))) + 1

\* C13. Empty fetch records nothing: a hook run whose fetch returns no block, or whose
\* event is no successful tool result or names no agent, ends without output or error
\* and leaves every snapshot and every log as it was.
C13_EmptyFetchRecordsNothing ==
  [][(/\ call'.op = "hook"
      /\ \/ call'.nblocks = 0
         \/ call'.status # "success"
         \/ call'.agent_id = "")
     => /\ snapshots' = snapshots
        /\ logs' = logs
        /\ clock' = clock
        /\ out'.kind = "none"]_vars

\* A hook run for a successful tool result of an agent fetched no block while a
\* snapshot and a log were stored.
C13_Witness ==
  /\ call.op = "hook"
  /\ call.status = "success"
  /\ call.agent_id # ""
  /\ call.nblocks = 0
  /\ DOMAIN logs # {}

\* C14. Not found: cmd_show and cmd_history for a block without a stored snapshot end
\* with the not-found message, show no content and build no version list, and leave
\* the snapshots and the logs as they were.
C14_NotFound ==
  [][(/\ call'.op \in {"show", "history"}
      /\ call'.block_name \notin DOMAIN snapshots)
     => /\ out'.kind = "not_found"
        /\ "content" \notin DOMAIN out'
        /\ "versions" \notin DOMAIN out'
        /\ snapshots' = snapshots
        /\ logs' = logs
        /\ clock' = clock]_vars

\* The history of a block without a snapshot was requested while another block had a
\* snapshot and a log.
C14_Witness ==
  /\ call.op = "history"
  /\ call.block_name \notin DOMAIN snapshots
  /\ DOMAIN logs # {}

\* C15. Atomic snapshot persistence: a read of the snapshot of a block that has a
\* state file, at any point of a hook run that persists it, returns a complete
\* snapshot: a content the hook observed for the block.
C15_AtomicSnapshot ==
  (call.op = "show" /\ call.block_name \in DOMAIN snapshots)
  => /\ out.kind = "content"
     /\ \E i \in 1..Len(observed[call.block_name].seq) :
          out.content = observed[call.block_name].seq[i]

\* C16. Empty patches are never logged: every entry of every log carries a diff that
\* holds at least one hunk.
C16_NoEmptyPatchLogged ==
  \A n \in DOMAIN logs :
    \A i \in 1..Len(logs[n]) :
      /\ IsEntry(logs[n][i])
      /\ parse_hunks(splitlines(logs[n][i].diff, FALSE), << >>) # << >>

\* A block went through three contents and has one log entry: the change between two
\* of them gave an empty diff, which was not logged.
C16_Witness ==
  \E n \in DOMAIN observed :
    /\ Len(observed[n].seq) = 3
    /\ Len(load_diff_history(logs, n)) = 1

\* C17. Log and snapshot move together: the number of log entries of a block is the
\* number of times its stored content has changed since its first observation.
C17_LogCountsChanges ==
  \A n \in DOMAIN observed :
    Len(load_diff_history(logs, n)) = Len(observed[n].seq) - 1

\* Whether a hunk is reflected in the lines of a content: the lines the hunk leaves
\* (its context and inserted lines) stand there from line new_start on.
HunkReflected(lines, hunk) ==
  LET kept == SelectSeq(hunk.changes, LAMBDA c : c[1] \in {" ", "+"})
  IN \A k \in 1..Len(kept) :
       /\ hunk.new_start + k - 1 \in 1..Len(lines)
       /\ lines[hunk.new_start + k - 1] = kept[k][2]

\* Whether every hunk of a diff is reflected in a content.
Reflected(content, diff_text) ==
  \A hunk \in {parse_hunks(splitlines(diff_text, FALSE), << >>)[h] :
                 h \in 1..Len(parse_hunks(splitlines(diff_text, FALSE), << >>))} :
    HunkReflected(splitlines(content, FALSE), hunk)

\* The lines of the contents the hook observed for a block.
ObservedLines(block_name) ==
  {splitlines(observed[block_name].seq[i], FALSE) :
     i \in 1..Len(observed[block_name].seq)}

\* C18. Reader-visible consistency: at every point of a hook run that records a
\* changed observation, the patch of the newest log entry of a block is reflected in
\* the stored snapshot, and a history built at that point shows only contents, line
\* for line, that were observed.
C18_ReaderConsistency ==
  /\ \A n \in DOMAIN logs \cap DOMAIN snapshots :
       (IsState(snapshots[n]) /\ load_diff_history(logs, n) # << >>)
       => Reflected(snapshots[n].content, Last(load_diff_history(logs, n)).diff)
  /\ (call.op = "history" /\ out.kind = "versions")
     => \A i \in 1..Len(out.versions) :
          splitlines(out.versions[i].content, FALSE) \in ObservedLines(call.block_name)

\* The lines a hunk emits in the fold: its context lines and the lines it inserts
\* (in reverse, the lines it deleted).
Emitted(hunk, reverse) ==
  LET kept == SelectSeq(hunk.changes, LAMBDA c : EffectiveOp(c[1], reverse) \in {" ", "+"})
  IN [i \in 1..Len(kept) |-> kept[i][2]]

\* The number of lines of the content a hunk consumes in the fold: one for each
\* context line and each line it deletes (in reverse, each line it inserted).
Consumed(hunk, reverse) ==
  Len(SelectSeq(hunk.changes, LAMBDA c : EffectiveOp(c[1], reverse) \in {" ", "-"}))

RECURSIVE FoldHunks(_, _, _, _, _)
\* The in-order fold: for each hunk in order, the unchanged lines before the hunk
\* are copied from the content (from line next on), the hunk's lines are emitted and
\* the lines it consumes are passed over; after the last hunk the remaining lines are
\* copied.
FoldHunks(lines, hunks, next, emitted, reverse) ==
  IF hunks = << >> THEN emitted \o SubSeq(lines, next, Len(lines))
  ELSE FoldHunks(lines, Tail(hunks),
                 (IF reverse THEN Head(hunks).new_start ELSE Head(hunks).old_start)
                   + Consumed(Head(hunks), reverse),
                 emitted
                   \o SubSeq(lines, next,
                             (IF reverse THEN Head(hunks).new_start
                              ELSE Head(hunks).old_start) - 1)
                   \o Emitted(Head(hunks), reverse),
                 reverse)

\* The hunks of the patch under test.
PatchHunks == parse_hunks(splitlines(patch, FALSE), << >>)

\* C19. Multi-hunk application: for a patch of two or more hunks made by
\* create_unified_diff, the lines apply_diff is left with after replacing the hunks in
\* place from last to first are the lines of the in-order fold, forward (on old) and
\* in reverse (on new, and on the result of the forward application).
C19_MultiHunkIsFold ==
  (stage \in {"forward", "reverse", "back"} /\ Len(PatchHunks) >= 2)
  => result = FoldHunks(splitlines(target, FALSE), PatchHunks, 1, << >>,
                        stage # "forward")

\* A patch of two hunks was applied in reverse, and its hunks changed the number of
\* lines.
C19_Witness ==
  /\ stage = "reverse"
  /\ Len(PatchHunks) = 2
  /\ Len(result) # Len(splitlines(target, FALSE))
  /\ Consumed(PatchHunks[1], TRUE) # Len(Emitted(PatchHunks[1], TRUE))

PreviousKeys == {"left", "p", "h"}

NextKeys == {"right", "n", "l"}

\* The step in which the navigation loop of cmd_history reads the key k.
KeyRead(k) ==
  /\ out.kind = "versions"
  /\ out'.kind = "versions"
  /\ call' = call
  /\ out'.key = k

\* The statement of C20 as made: every previous key decrements the index by one except
\* at 0 and every next key increments it by one except at the last index, whenever it
\* is pressed.
C20_EveryKeyMoves ==
  [][\A k \in Keys :
       KeyRead(k)
       => /\ out'.versions = out.versions
          /\ out'.current_idx \in 0..(Len(out.versions) - 1)
          /\ k \in PreviousKeys
             => out'.current_idx = IF out.current_idx = 0 THEN 0
                                   ELSE out.current_idx - 1
          /\ k \in NextKeys
             => out'.current_idx = IF out.current_idx = Len(out.versions) - 1
                                   THEN out.current_idx ELSE out.current_idx + 1
          /\ k \notin PreviousKeys \cup NextKeys
             => out'.current_idx = out.current_idx]_vars

\* C20. Navigation stays in range: the index starts at the last version; a key the
\* navigation loop reads moves it as stated (previous: down by one except at 0, next:
\* up by one except at the last index, any other key: not at all); the key read while
\* a diff is on display ("Press any key...") only ends that display, whatever key it
\* is; the index stays within 0 .. len(versions)-1 and the version list is unchanged.
C20_NavigationInRange ==
  [][/\ (out'.kind = "versions" /\ out'.key = "")
        => out'.current_idx = Len(out'.versions) - 1
     /\ \A k \in Keys :
          KeyRead(k)
          => /\ out'.versions = out.versions
             /\ out'.current_idx \in 0..(Len(out.versions) - 1)
             /\ out.waiting => out'.current_idx = out.current_idx
             /\ (~out.waiting /\ k \in PreviousKeys)
                => out'.current_idx = IF out.current_idx = 0 THEN 0
                                      ELSE out.current_idx - 1
             /\ (~out.waiting /\ k \in NextKeys)
                => out'.current_idx = IF out.current_idx = Len(out.versions) - 1
                                      THEN out.current_idx ELSE out.current_idx + 1
             /\ k \notin PreviousKeys \cup NextKeys
                => out'.current_idx = out.current_idx]_vars

\* In a list of three versions the index was moved to the oldest one and a next key
\* moved it up again: the session stands at the middle version.
C20_Witness ==
  /\ out.kind = "versions"
  /\ Len(out.versions) = 3
  /\ out.key \in NextKeys
  /\ out.current_idx = 1

\* Whether a step leaves the state file and the log file of a block as they were.
FilesUnchanged(n) ==
  /\ (n \in DOMAIN snapshots') = (n \in DOMAIN snapshots)
  /\ n \in DOMAIN snapshots => snapshots'[n] = snapshots[n]
  /\ (n \in DOMAIN logs') = (n \in DOMAIN logs)
  /\ n \in DOMAIN logs => logs'[n] = logs[n]

\* C21. Block isolation: a hook run leaves the snapshot and the log of every block it
\* did not observe unchanged; of a block it observed, one alone or several in one
\* run, the snapshot holds the content observed for that block, and its log is as it
\* was or has one more entry, the diff between the old and the new content of that
\* block.
C21_BlockIsolation ==
  [][call'.op = "hook"
     => \A n \in Names :
          IF n \notin call'.labels THEN FilesUnchanged(n)
          ELSE /\ n \in DOMAIN snapshots'
               /\ snapshots'[n].block_name = n
               /\ snapshots'[n].content = Last(observed'[n].seq)
               /\ \/ load_diff_history(logs', n) = load_diff_history(logs, n)
                  \/ /\ n \in DOMAIN snapshots
                     /\ Len(load_diff_history(logs', n))
                          = Len(load_diff_history(logs, n)) + 1
                     /\ SubSeq(load_diff_history(logs', n), 1,
                               Len(load_diff_history(logs, n)))
                          = load_diff_history(logs, n)
                     /\ Last(load_diff_history(logs', n)).diff
                          = create_unified_diff(snapshots[n].content,
                                                snapshots'[n].content, n)]_vars

\* One hook run observed both blocks: it logged a change of the first, which had a
\* snapshot, and initialized the second; no block was ever observed with the content
\* it had, so the four files written are all there is.
C21_Witness ==
  /\ call.op = "hook"
  /\ call.labels = Names
  /\ clock = 4
  /\ \A n \in Names : n \in DOMAIN observed /\ observed[n].norepeat
  /\ Len(observed["human"].seq) = 2
  /\ Len(load_diff_history(logs, "human")) = 1
  /\ Len(observed["persona"].seq) = 1
  /\ load_diff_history(logs, "persona") = << >>

====
